---- MODULE Spec2Model ----
(***************************************************************************)
(* Shape algebra of the layer library in common.py: the tensor primitives  *)
(* the layers are written with (permute, view, contiguous, transpose, cat, *)
(* strided slicing), the window partition / reverse pair, and the          *)
(* constructors and forward passes of Conv, Bottleneck, BottleneckCSP,     *)
(* SPP, Focus, SAM, DAM and BDAM.                                          *)
(*                                                                         *)
(* A tensor is a record [ok, shape, stride, data]: data is the storage,    *)
(* the element at index idx is data[1 + SUM idx[i] * stride[i]], and the   *)
(* elements of an input tensor are numbered 0 .. numel-1 in storage order, *)
(* so that "the same element" is "the same number".  ok = FALSE is a       *)
(* raised exception.                                                       *)
(***************************************************************************)
EXTENDS Integers, Sequences, FiniteSets, TLC

VARIABLES layer, op, arg, ret

vars == <<layer, op, arg, ret>>

\* ------------------------------------------------------------------ bounds
MaxN == 2      \* batch sizes 1 .. MaxN
MaxC == 2      \* channel counts 1 .. MaxC of the element-wise tensors
MaxHW == 4     \* heights, widths and window sizes 1 .. MaxHW

\* ------------------------------------------------------- tensor primitives
Err == [ok |-> FALSE, shape |-> <<>>, stride |-> <<>>, data |-> <<>>]

RECURSIVE Prod(_)
Prod(s) == IF s = <<>> THEN 1 ELSE Head(s) * Prod(Tail(s))

RECURSIVE Dot(_, _)
Dot(a, b) == IF a = <<>> THEN 0 ELSE Head(a) * Head(b) + Dot(Tail(a), Tail(b))

ContigStrides(shape) ==
    [i \in 1..Len(shape) |-> Prod(SubSeq(shape, i + 1, Len(shape)))]

Unravel(k, shape) ==
    [i \in 1..Len(shape) |->
        (k \div Prod(SubSeq(shape, i + 1, Len(shape)))) % shape[i]]

Elem(t, idx) == t.data[1 + Dot(idx, t.stride)]

Fresh(shape) ==
    [ok |-> TRUE, shape |-> shape, stride |-> ContigStrides(shape),
     data |-> [k \in 1..Prod(shape) |-> k - 1]]

\* x.permute(p): p is a sequence of 0-based axis numbers
Permute(t, p) ==
    IF ~t.ok THEN Err
    ELSE [ok |-> TRUE,
          shape |-> [i \in 1..Len(p) |-> t.shape[p[i] + 1]],
          stride |-> [i \in 1..Len(p) |-> t.stride[p[i] + 1]],
          data |-> t.data]

\* x.contiguous(): a no-op on a tensor already laid out in index order
Contiguous(t) ==
    IF ~t.ok THEN Err
    ELSE IF t.stride = ContigStrides(t.shape) THEN t
    ELSE [ok |-> TRUE, shape |-> t.shape, stride |-> ContigStrides(t.shape),
          data |-> [k \in 1..Prod(t.shape) |-> Elem(t, Unravel(k - 1, t.shape))]]

\* size inference of view(): one dimension may be -1
InferSize(shape, numel) ==
    LET known == Prod(SelectSeq(shape, LAMBDA d : d # -1))
        hasInfer == \E i \in 1..Len(shape) : shape[i] = -1
    IN IF hasInfer
       THEN IF known = 0 \/ numel % known # 0
            THEN [ok |-> FALSE, shape |-> <<>>]
            ELSE [ok |-> TRUE,
                  shape |-> [i \in 1..Len(shape) |->
                               IF shape[i] = -1 THEN numel \div known ELSE shape[i]]]
       ELSE IF known # numel
            THEN [ok |-> FALSE, shape |-> <<>>]
            ELSE [ok |-> TRUE, shape |-> shape]

\* the inner loop of the stride computation of view(): take view dimensions
\* (from the last) until they fill the current chunk of tensor dimensions
RECURSIVE FillChunk(_, _, _, _, _, _)
FillChunk(nsh, vd, vn, tn, cbs, ns) ==
    IF vd >= 1 /\ (vn < tn \/ nsh[vd] = 1)
    THEN FillChunk(nsh, vd - 1, vn * nsh[vd], tn, cbs, [ns EXCEPT ![vd] = vn * cbs])
    ELSE [vd |-> vd, vn |-> vn, ns |-> ns]

\* the stride computation of view(): the tensor's dimensions are grouped
\* into maximal chunks that are contiguous in memory, and every chunk must be
\* exactly covered by a run of view dimensions
RECURSIVE ComputeStride(_, _, _, _, _, _, _, _)
ComputeStride(osh, ost, nsh, td, vd, cbs, tn0, ns) ==
    LET tn == tn0 * osh[td] IN
    IF td = 1 \/ (osh[td - 1] # 1 /\ ost[td - 1] # tn * cbs)
    THEN LET f == FillChunk(nsh, vd, 1, tn, cbs, ns) IN
         IF f.vn # tn THEN [ok |-> FALSE, stride |-> <<>>]
         ELSE IF td > 1
              THEN ComputeStride(osh, ost, nsh, td - 1, f.vd, ost[td - 1], 1, f.ns)
              ELSE IF f.vd # 0 THEN [ok |-> FALSE, stride |-> <<>>]
                   ELSE [ok |-> TRUE, stride |-> f.ns]
    ELSE ComputeStride(osh, ost, nsh, td - 1, vd, cbs, tn, ns)

\* x.view(shape): never copies; raises when the sizes do not multiply to the
\* number of elements or the strides do not allow the regrouping
View(t, shape) ==
    IF ~t.ok THEN Err
    ELSE LET inf == InferSize(shape, Prod(t.shape)) IN
         IF ~inf.ok THEN Err
         ELSE LET cs == ComputeStride(t.shape, t.stride, inf.shape, Len(t.shape),
                                      Len(inf.shape), t.stride[Len(t.shape)], 1,
                                      [i \in 1..Len(inf.shape) |-> 0])
              IN IF ~cs.ok THEN Err
                 ELSE [ok |-> TRUE, shape |-> inf.shape, stride |-> cs.stride,
                       data |-> t.data]

\* ------------------------------------------------ window partition / reverse
\* mutant: the tile-index axes are merged column first
window_partition_TileOrder(x, window_size) ==
    IF ~x.ok \/ window_size = 0 THEN Err
    ELSE LET xp == Permute(x, <<0, 2, 3, 1>>)
             B == xp.shape[1]
             H == xp.shape[2]
             W == xp.shape[3]
             C == xp.shape[4]
             xv == View(xp, <<B, H \div window_size, window_size,
                              W \div window_size, window_size, C>>)
             windows == View(Contiguous(Permute(xv, <<0, 3, 1, 2, 4, 5>>)),
                             <<-1, window_size, window_size, C>>)
         IN Permute(windows, <<0, 3, 1, 2>>)

window_partition(x, window_size) ==
    IF ~x.ok \/ window_size = 0 THEN Err
    ELSE LET xp == Permute(x, <<0, 2, 3, 1>>)
             B == xp.shape[1]
             H == xp.shape[2]
             W == xp.shape[3]
             C == xp.shape[4]
             xv == View(xp, <<B, H \div window_size, window_size,
                              W \div window_size, window_size, C>>)
             windows == View(Contiguous(Permute(xv, <<0, 1, 3, 2, 4, 5>>)),
                             <<-1, window_size, window_size, C>>)
         IN Permute(windows, <<0, 3, 1, 2>>)

\* mutant: the windows are merged without moving the within-tile row axis
\* back between the tile-row and tile-column axes
window_reverse_NoRegroup(windows, window_size, H, W) ==
    IF ~windows.ok \/ window_size = 0 \/ H = 0 \/ W = 0 THEN Err
    ELSE LET wp == Permute(windows, <<0, 2, 3, 1>>)
             B == (wp.shape[1] * window_size * window_size) \div (H * W)
             xv == View(wp, <<B, H \div window_size, W \div window_size,
                              window_size, window_size, -1>>)
             x == View(Contiguous(xv), <<B, H, W, -1>>)
         IN Permute(x, <<0, 3, 1, 2>>)

\* B = int(windows.shape[0] / (H * W / window_size / window_size)): for the
\* sizes used here the floating-point quotient truncates to the exact floor
window_reverse(windows, window_size, H, W) ==
    IF ~windows.ok \/ window_size = 0 \/ H = 0 \/ W = 0 THEN Err
    ELSE LET wp == Permute(windows, <<0, 2, 3, 1>>)
             B == (wp.shape[1] * window_size * window_size) \div (H * W)
             xv == View(wp, <<B, H \div window_size, W \div window_size,
                              window_size, window_size, -1>>)
             x == View(Contiguous(Permute(xv, <<0, 1, 3, 2, 4, 5>>)),
                       <<B, H, W, -1>>)
         IN Permute(x, <<0, 3, 1, 2>>)

\* ------------------------------------------------------- shape arithmetic
\* out_size = (in_size + 2*Padding - kernel_size)/strides + 1, rounded down
ConvOutSize(in, k, s, p) == ((in + 2 * p - k) \div s) + 1

\* nn.Conv2d(c1, c2, k, s, p, groups=g): k, s and p are (height, width) pairs
Conv2d(c1, c2, k, s, p, g) ==
    [ok |-> g >= 1 /\ c1 % g = 0 /\ c2 % g = 0,
     c1 |-> c1, c2 |-> c2, k |-> k, s |-> s, p |-> p, g |-> g]

\* the shape nn.Conv2d returns for an input of shape sh, or a raised error:
\* the input must have c1 channels, the weight at least one output channel
\* per group, and the padded input must hold the kernel
Conv2dForward(m, sh) ==
    IF /\ sh.ok
       /\ m.ok
       /\ Len(sh.shape) = 4
       /\ sh.shape[2] = m.c1
       /\ m.c2 >= m.g
       /\ m.p[1] >= 0 /\ m.p[2] >= 0
       /\ sh.shape[3] + 2 * m.p[1] >= m.k[1]
       /\ sh.shape[4] + 2 * m.p[2] >= m.k[2]
    THEN [ok |-> TRUE,
          shape |-> <<sh.shape[1], m.c2,
                      ConvOutSize(sh.shape[3], m.k[1], m.s[1], m.p[1]),
                      ConvOutSize(sh.shape[4], m.k[2], m.s[2], m.p[2])>>]
    ELSE [ok |-> FALSE, shape |-> <<>>]

\* x.transpose(d0, d1) on a shape, d0 and d1 counted from the end (negative)
Transpose(shape, d0, d1) ==
    LET a == Len(shape) + d0 + 1
        b == Len(shape) + d1 + 1
    IN [i \in 1..Len(shape) |->
          IF i = a THEN shape[b] ELSE IF i = b THEN shape[a] ELSE shape[i]]

\* the shape of a * b under broadcasting
BroadcastShape(a, b) ==
    IF a.ok /\ b.ok /\ Len(a.shape) = Len(b.shape)
       /\ \A i \in 1..Len(a.shape) :
            a.shape[i] = b.shape[i] \/ a.shape[i] = 1 \/ b.shape[i] = 1
    THEN [ok |-> TRUE,
          shape |-> [i \in 1..Len(a.shape) |->
                       IF a.shape[i] = 1 THEN b.shape[i] ELSE a.shape[i]]]
    ELSE [ok |-> FALSE, shape |-> <<>>]

\* the shape of a @ b for two 4-axis tensors: a batched matrix product over
\* the last two axes
MatmulShape(a, b) ==
    LET batch == BroadcastShape([ok |-> a.ok, shape |-> SubSeq(a.shape, 1, 2)],
                                [ok |-> b.ok, shape |-> SubSeq(b.shape, 1, 2)])
    IN IF a.ok /\ b.ok /\ Len(a.shape) = 4 /\ Len(b.shape) = 4 /\ batch.ok
          /\ a.shape[4] = b.shape[3]
       THEN [ok |-> TRUE, shape |-> batch.shape \o <<a.shape[3], b.shape[4]>>]
       ELSE [ok |-> FALSE, shape |-> <<>>]

ShapeOf(t) == [ok |-> t.ok, shape |-> t.shape]

\* ------------------------------------------------------------ convolution
\* A kernel size, stride or padding argument is a sequence: <<k>> is the int
\* k, <<kh, kw>> a per-axis list, and <<>> (for a padding) is None.
None == <<>>

IsInt(v) == Len(v) = 1

\* nn.Conv2d turns an int argument into a (height, width) pair
Pair(v) == IF IsInt(v) THEN <<v[1], v[1]>> ELSE v

autopad(k, p) ==
    IF p = None
    THEN IF IsInt(k) THEN <<k[1] \div 2>> ELSE [i \in 1..Len(k) |-> k[i] \div 2]
    ELSE p

\* a symbolic tensor [ok, shape, expr]: expr is the postfix expression that
\* computes it from the input <<"x">>
SymErr == [ok |-> FALSE, shape |-> <<>>, expr |-> <<>>]

SymInput(shape) == [ok |-> TRUE, shape |-> shape, expr |-> <<"x">>]

Conv(c1, c2, k, s, p, g, act) ==
    [kind |-> "Conv",
     conv |-> Conv2d(c1, c2, Pair(k), Pair(s), Pair(autopad(k, p)), g),
     bn |-> c2,
     act |-> IF act THEN "Hardswish" ELSE "Identity"]

\* Conv.forward: act(bn(conv(x))); tag names the layer in the expression
ConvForward(m, x, tag) ==
    LET y == Conv2dForward(m.conv, ShapeOf(x)) IN
    IF x.ok /\ y.ok /\ y.shape[2] = m.bn
    THEN [ok |-> TRUE, shape |-> y.shape,
          expr |-> x.expr \o tag \o <<"conv", "bn", m.act>>]
    ELSE SymErr

\* a + b
Add(a, b) ==
    LET sh == BroadcastShape(ShapeOf(a), ShapeOf(b)) IN
    IF sh.ok THEN [ok |-> TRUE, shape |-> sh.shape, expr |-> a.expr \o b.expr \o <<"+">>]
    ELSE SymErr

\* torch.cat(ts, 1) of symbolic tensors: all axes but the channel axis agree
CatShapeOk(ts) ==
    /\ Len(ts) >= 1
    /\ \A i \in 1..Len(ts) : ts[i].ok /\ Len(ts[i].shape) = 4
    /\ \A i \in 1..Len(ts) : \A d \in {1, 3, 4} : ts[i].shape[d] = ts[1].shape[d]

RECURSIVE SumChannels(_)
SumChannels(ts) == IF ts = <<>> THEN 0 ELSE Head(ts).shape[2] + SumChannels(Tail(ts))

RECURSIVE JoinExpr(_)
JoinExpr(ts) == IF ts = <<>> THEN <<>> ELSE Head(ts).expr \o JoinExpr(Tail(ts))

SymCat(ts) ==
    IF CatShapeOk(ts)
    THEN [ok |-> TRUE,
          shape |-> <<ts[1].shape[1], SumChannels(ts), ts[1].shape[3], ts[1].shape[4]>>,
          expr |-> JoinExpr(ts) \o <<"cat">>]
    ELSE SymErr

\* ------------------------------------------------------------ residual blocks
\* an expansion e is the fraction <<numerator, denominator>>; int(c2 * e)
\* truncates the product
IntMul(c2, e) == (c2 * e[1]) \div e[2]

\* mutant: the shortcut is added whenever it is requested
Bottleneck_AlwaysAdd(c1, c2, shortcut, g, e) ==
    [kind |-> "Bottleneck",
     cv1 |-> Conv(c1, IntMul(c2, e), <<1>>, <<1>>, None, 1, TRUE),
     cv2 |-> Conv(IntMul(c2, e), c2, <<3>>, <<1>>, None, g, TRUE),
     add |-> shortcut]

\* mutant: the hidden width is rounded up
Bottleneck_CeilHidden(c1, c2, shortcut, g, e) ==
    [kind |-> "Bottleneck",
     cv1 |-> Conv(c1, (c2 * e[1] + e[2] - 1) \div e[2], <<1>>, <<1>>, None, 1, TRUE),
     cv2 |-> Conv((c2 * e[1] + e[2] - 1) \div e[2], c2, <<3>>, <<1>>, None, g, TRUE),
     add |-> shortcut /\ c1 = c2]

Bottleneck(c1, c2, shortcut, g, e) ==
    [kind |-> "Bottleneck",
     cv1 |-> Conv(c1, IntMul(c2, e), <<1>>, <<1>>, None, 1, TRUE),
     cv2 |-> Conv(IntMul(c2, e), c2, <<3>>, <<1>>, None, g, TRUE),
     add |-> shortcut /\ c1 = c2]

\* cv2(cv1(x)) of a Bottleneck; pre names the block in the expression
BottleneckTransform(m, x, pre) ==
    ConvForward(m.cv2, ConvForward(m.cv1, x, pre \o <<"cv1">>), pre \o <<"cv2">>)

BottleneckForward(m, x, pre) ==
    IF m.add THEN Add(x, BottleneckTransform(m, x, pre))
    ELSE BottleneckTransform(m, x, pre)

MNames == <<"m0", "m1", "m2", "m3">>

BottleneckCSP(c1, c2, n, shortcut, g, e) ==
    [kind |-> "BottleneckCSP",
     cv1 |-> Conv(c1, IntMul(c2, e), <<1>>, <<1>>, None, 1, TRUE),
     cv2 |-> Conv2d(c1, IntMul(c2, e), <<1, 1>>, <<1, 1>>, <<0, 0>>, 1),
     cv3 |-> Conv2d(IntMul(c2, e), IntMul(c2, e), <<1, 1>>, <<1, 1>>, <<0, 0>>, 1),
     cv4 |-> Conv(2 * IntMul(c2, e), c2, <<1>>, <<1>>, None, 1, TRUE),
     bn |-> 2 * IntMul(c2, e),
     m |-> [i \in 1..n |->
              Bottleneck(IntMul(c2, e), IntMul(c2, e), shortcut, g, <<1, 1>>)]]

\* a bare nn.Conv2d applied to a symbolic tensor
SymConv2d(m, x, tag) ==
    LET y == Conv2dForward(m, ShapeOf(x)) IN
    IF x.ok /\ y.ok THEN [ok |-> TRUE, shape |-> y.shape, expr |-> x.expr \o tag]
    ELSE SymErr

\* nn.Sequential of the stacked bottlenecks
RECURSIVE Sequential(_, _, _)
Sequential(ms, x, i) ==
    IF i > Len(ms) THEN x
    ELSE Sequential(ms, BottleneckForward(ms[i], x, <<MNames[i]>>), i + 1)

\* BottleneckCSP.forward, with the concatenated tensor it builds on the way
BottleneckCSPForward(m, x) ==
    LET y1 == SymConv2d(m.cv3, Sequential(m.m, ConvForward(m.cv1, x, <<"cv1">>), 1),
                        <<"cv3">>)
        y2 == SymConv2d(m.cv2, x, <<"cv2">>)
        cat == SymCat(<<y1, y2>>)
        normed == IF cat.ok /\ cat.shape[2] = m.bn
                  THEN [cat EXCEPT !.expr = cat.expr \o <<"bn", "LeakyReLU">>]
                  ELSE SymErr
        out == ConvForward(m.cv4, normed, <<"cv4">>)
    IN [ok |-> out.ok, shape |-> out.shape, expr |-> out.expr,
        y1 |-> y1, y2 |-> y2, cat |-> cat]

\* --------------------------------------------------------------------- SPP
\* nn.MaxPool2d(kernel_size=k, stride=s, padding=p) on a shape
MaxPool2dForward(k, s, p, x) ==
    IF x.ok /\ Len(x.shape) = 4 /\ 2 * p <= k
       /\ x.shape[3] + 2 * p >= k /\ x.shape[4] + 2 * p >= k
    THEN [ok |-> TRUE,
          shape |-> <<x.shape[1], x.shape[2],
                      ((x.shape[3] + 2 * p - k) \div s) + 1,
                      ((x.shape[4] + 2 * p - k) \div s) + 1>>,
          expr |-> x.expr \o <<"maxpool">>]
    ELSE SymErr

SPP(c1, c2, k) ==
    [kind |-> "SPP",
     cv1 |-> Conv(c1, c1 \div 2, <<1>>, <<1>>, None, 1, TRUE),
     cv2 |-> Conv((c1 \div 2) * (Len(k) + 1), c2, <<1>>, <<1>>, None, 1, TRUE),
     m |-> [i \in 1..Len(k) |-> [kernel_size |-> k[i], stride |-> 1,
                                 padding |-> k[i] \div 2]]]

\* SPP.forward, with the pooled branches and the concatenated tensor
SPPForward(m, x) ==
    LET x1 == ConvForward(m.cv1, x, <<"cv1">>)
        pooled == [i \in 1..Len(m.m) |->
                     MaxPool2dForward(m.m[i].kernel_size, m.m[i].stride,
                                      m.m[i].padding, x1)]
        cat == SymCat(<<x1>> \o pooled)
        out == ConvForward(m.cv2, cat, <<"cv2">>)
    IN [ok |-> out.ok, shape |-> out.shape, expr |-> out.expr,
        x1 |-> x1, pooled |-> pooled, cat |-> cat]

\* -------------------------------------------------------------------- Focus
\* x[..., r0::2, c0::2]
Slice2(x, r0, c0) ==
    LET sh == <<x.shape[1], x.shape[2],
                (x.shape[3] - r0 + 1) \div 2, (x.shape[4] - c0 + 1) \div 2>>
    IN [ok |-> TRUE, shape |-> sh, stride |-> ContigStrides(sh),
        data |-> [q \in 1..Prod(sh) |->
                    LET idx == Unravel(q - 1, sh)
                    IN Elem(x, <<idx[1], idx[2], 2 * idx[3] + r0, 2 * idx[4] + c0>>)]]

\* the part number and the channel within the part of channel c of cat(ts, 1)
RECURSIVE Locate(_, _, _)
Locate(ts, c, i) ==
    IF c < ts[i].shape[2] THEN <<i, c>> ELSE Locate(ts, c - ts[i].shape[2], i + 1)

\* torch.cat(ts, 1) of tensors with elements
Cat(ts) ==
    IF CatShapeOk(ts)
    THEN LET sh == <<ts[1].shape[1], SumChannels(ts), ts[1].shape[3], ts[1].shape[4]>>
         IN [ok |-> TRUE, shape |-> sh, stride |-> ContigStrides(sh),
             data |-> [q \in 1..Prod(sh) |->
                         LET idx == Unravel(q - 1, sh)
                             at == Locate(ts, idx[2], 1)
                         IN Elem(ts[at[1]], <<idx[1], at[2], idx[3], idx[4]>>)]]
    ELSE Err

Focus(c1, c2, k, s, p, g, act) ==
    [kind |-> "Focus", conv |-> Conv(c1 * 4, c2, k, s, p, g, act)]

\* mutant: the sub-grids are concatenated in column-major offset order
FocusCat_Swapped(x) ==
    Cat(<<Slice2(x, 0, 0), Slice2(x, 0, 1), Slice2(x, 1, 0), Slice2(x, 1, 1)>>)

\* the tensor Focus.forward hands to its convolution
FocusCat(x) ==
    Cat(<<Slice2(x, 0, 0), Slice2(x, 1, 0), Slice2(x, 0, 1), Slice2(x, 1, 1)>>)

FocusForward(m, x) ==
    LET cat == FocusCat(x)
        out == ConvForward(m.conv, [ok |-> cat.ok, shape |-> cat.shape, expr |-> <<"x", "cat">>],
                           <<"conv">>)
    IN [ok |-> out.ok, shape |-> out.shape, cat |-> cat]

\* a constructor raises when one of its nn.Conv2d does (groups not dividing
\* the channel counts)
RECURSIVE LayerOk(_)
LayerOk(m) ==
    IF m.kind = "Conv" THEN m.conv.ok
    ELSE IF m.kind = "Bottleneck" THEN LayerOk(m.cv1) /\ LayerOk(m.cv2)
    ELSE IF m.kind = "BottleneckCSP"
         THEN /\ LayerOk(m.cv1) /\ m.cv2.ok /\ m.cv3.ok /\ LayerOk(m.cv4)
              /\ \A i \in 1..Len(m.m) : LayerOk(m.m[i])
    ELSE IF m.kind = "SPP" THEN LayerOk(m.cv1) /\ LayerOk(m.cv2)
    ELSE IF m.kind = "Focus" THEN LayerOk(m.conv)
    ELSE TRUE

Raised == [kind |-> "raised"]

\* the object a constructor call leaves behind
Constructed(m) == IF LayerOk(m) THEN m ELSE Raised

\* ---------------------------------------------------------------- attention
ratio == 16

ChannelAttention(in_planes) ==
    [in_planes |-> in_planes,
     fc1 |-> Conv2d(in_planes, in_planes \div ratio, <<1, 1>>, <<1, 1>>, <<0, 0>>, 1),
     fc2 |-> Conv2d(in_planes \div ratio, in_planes, <<1, 1>>, <<1, 1>>, <<0, 0>>, 1)]

\* the gate (N,C,1,1): both pooled tensors go through the shared fc
ChannelAttentionForward(m, sh) ==
    LET pooled == IF sh.ok /\ Len(sh.shape) = 4
                  THEN [ok |-> TRUE, shape |-> <<sh.shape[1], sh.shape[2], 1, 1>>]
                  ELSE [ok |-> FALSE, shape |-> <<>>]
        avg_out == Conv2dForward(m.fc2, Conv2dForward(m.fc1, pooled))
        max_out == Conv2dForward(m.fc2, Conv2dForward(m.fc1, pooled))
    IN BroadcastShape(avg_out, max_out)

SAM(in_channels, width, height) ==
    [kind |-> "SAM", in_channels |-> in_channels, width |-> width, height |-> height,
     wam |-> Conv2d(width, in_channels, <<1, 1>>, <<1, 1>>, <<0, 0>>, 1),
     ham |-> Conv2d(height, in_channels, <<1, 1>>, <<1, 1>>, <<0, 0>>, 1)]

\* mutant: the width-exchanged view swaps width with height, not with channel
SAMForward_WrongAxis(m, sh) ==
    LET xh == IF sh.ok /\ Len(sh.shape) = 4
              THEN [ok |-> TRUE, shape |-> Transpose(sh.shape, -2, -3)]
              ELSE [ok |-> FALSE, shape |-> <<>>]
        xw == IF sh.ok /\ Len(sh.shape) = 4
              THEN [ok |-> TRUE, shape |-> Transpose(sh.shape, -1, -2)]
              ELSE [ok |-> FALSE, shape |-> <<>>]
        yh == Conv2dForward(m.ham, xh)
        yw == Conv2dForward(m.wam, xw)
        y == MatmulShape(yw, yh)
    IN [ok |-> y.ok, shape |-> y.shape,
        xh |-> xh.shape, xw |-> xw.shape, yh |-> yh.shape, yw |-> yw.shape]

\* SAM.forward on a shape: the shapes of its locals xh, xw, yh, yw and of the
\* returned gate y
SAMForward(m, sh) ==
    LET xh == IF sh.ok /\ Len(sh.shape) = 4
              THEN [ok |-> TRUE, shape |-> Transpose(sh.shape, -2, -3)]
              ELSE [ok |-> FALSE, shape |-> <<>>]
        xw == IF sh.ok /\ Len(sh.shape) = 4
              THEN [ok |-> TRUE, shape |-> Transpose(sh.shape, -1, -3)]
              ELSE [ok |-> FALSE, shape |-> <<>>]
        yh == Conv2dForward(m.ham, xh)
        yw == Conv2dForward(m.wam, xw)
        y == MatmulShape(yw, yh)
    IN [ok |-> y.ok, shape |-> y.shape,
        xh |-> xh.shape, xw |-> xw.shape, yh |-> yh.shape, yw |-> yw.shape]

DAM(in_planes, width, height) ==
    [kind |-> "DAM", width |-> width, height |-> height,
     cam |-> ChannelAttention(in_planes),
     sam |-> SAM(in_planes, width, height)]

\* gate * x element-wise: a new tensor of the broadcast shape, laid out in
\* index order, whose element at idx is the gated element of x at idx
Gated(x, sh) ==
    IF ~x.ok \/ ~sh.ok THEN Err
    ELSE [ok |-> TRUE, shape |-> sh.shape, stride |-> ContigStrides(sh.shape),
          data |-> [k \in 1..Prod(sh.shape) |->
                      LET idx == Unravel(k - 1, sh.shape)
                      IN Elem(x, [i \in 1..Len(idx) |->
                                    IF x.shape[i] = 1 THEN 0 ELSE idx[i]])]]

DAMForward(m, x) ==
    LET s1 == BroadcastShape(ChannelAttentionForward(m.cam, ShapeOf(x)), ShapeOf(x))
        s2 == BroadcastShape(SAMForward(m.sam, s1), s1)
    IN Gated(x, s2)

Min(a, b) == IF a <= b THEN a ELSE b

BDAM(in_planes, width, height) ==
    [kind |-> "BDAM", width |-> width, height |-> height,
     window_size |-> Min(width \div 4, height \div 4),
     dam |-> DAM(in_planes, Min(width \div 4, height \div 4),
                 Min(width \div 4, height \div 4))]

BDAMForward(m, x) ==
    window_reverse(DAMForward(m.dam, window_partition(x, m.window_size)),
                   m.window_size, m.height, m.width)

\* ------------------------------------------------------------ common state
NoLayer == [kind |-> "none"]
NoArg == [none |-> TRUE]

\* ------------------------------------------------------ window specification
\* the inputs of a window_partition call: a tensor (N,C,H,W) and a window size
WindowInputs ==
    {[x |-> Fresh(<<N, C, H, W>>), window_size |-> ws] :
        N \in 1..MaxN, C \in 1..MaxC, H \in 1..MaxHW, W \in 1..MaxHW,
        ws \in 1..MaxHW}

InitWindow ==
    /\ layer = NoLayer
    /\ op = "start"
    /\ arg \in WindowInputs
    /\ ret = Err

CallWindowPartition ==
    /\ op = "start"
    /\ layer.kind = "none"
    /\ "window_size" \in DOMAIN arg
    /\ op' = "window_partition"
    /\ ret' = window_partition(arg.x, arg.window_size)
    /\ UNCHANGED <<layer, arg>>

\* window_reverse on the windows a window_partition call returned, with the
\* same window size and any H and W
CallWindowReverse ==
    /\ op = "window_partition"
    /\ ret.ok
    /\ \E H \in 1..MaxHW, W \in 1..MaxHW :
        /\ op' = "window_reverse"
        /\ arg' = [windows |-> ret, window_size |-> arg.window_size,
                   H |-> H, W |-> W, x |-> arg.x]
        /\ ret' = window_reverse(ret, arg.window_size, H, W)
        /\ UNCHANGED layer

NextWindow == CallWindowPartition \/ CallWindowReverse

SpecWindow == InitWindow /\ [][NextWindow]_vars

\* all index tuples of a shape
Indices(shape) == {Unravel(k, shape) : k \in 0..(Prod(shape) - 1)}

Divides(d, n) == d > 0 /\ n % d = 0

\* C10: window_partition of x (N,C,H,W) with window_size ws dividing H and W
\* returns shape (N*(H/ws)*(W/ws), C, ws, ws); its element
\* [(n*(H/ws)+i)*(W/ws)+j, c, u, v] is x[n, c, i*ws+u, j*ws+v]; and every
\* element of x appears in exactly one place of the windows.
C10_PartitionTiling ==
    (op = "window_partition"
        /\ Divides(arg.window_size, arg.x.shape[3])
        /\ Divides(arg.window_size, arg.x.shape[4]))
    => LET x == arg.x
           ws == arg.window_size
           N == x.shape[1]
           C == x.shape[2]
           nh == x.shape[3] \div ws
           nw == x.shape[4] \div ws
       IN /\ ret.ok
          /\ ret.shape = <<N * nh * nw, C, ws, ws>>
          /\ \A n \in 0..(N - 1), i \in 0..(nh - 1), j \in 0..(nw - 1),
                c \in 0..(C - 1), u \in 0..(ws - 1), v \in 0..(ws - 1) :
                Elem(ret, <<(n * nh + i) * nw + j, c, u, v>>)
                    = Elem(x, <<n, c, i * ws + u, j * ws + v>>)
          /\ Cardinality({Elem(ret, idx) : idx \in Indices(ret.shape)})
                = Prod(x.shape)

C10_Witness ==
    /\ op = "window_partition"
    /\ ret.ok
    /\ arg.window_size = 2
    /\ arg.x.shape = <<2, 2, 4, 4>>
    /\ ret.shape = <<8, 2, 2, 2>>

\* C1: window_reverse(window_partition(x, ws), ws, H, W), with H and W the
\* height and width of x and ws dividing both, has the shape of x and equals
\* x element for element.
C1_RoundTrip ==
    (op = "window_reverse" /\ arg.H = arg.x.shape[3] /\ arg.W = arg.x.shape[4])
    => /\ ret.ok
       /\ ret.shape = arg.x.shape
       /\ \A idx \in Indices(arg.x.shape) : Elem(ret, idx) = Elem(arg.x, idx)

C1_Witness ==
    /\ op = "window_reverse"
    /\ arg.window_size = 2
    /\ arg.x.shape = <<2, 2, 4, 2>>
    /\ arg.H = 4
    /\ arg.W = 2
    /\ ret.ok
    /\ ret.shape = <<2, 2, 4, 2>>

\* C3: no window_partition and no window_reverse call with an H or W that is
\* not a multiple of window_size returns an output tensor: the violation
\* surfaces as an error.
C3_IndivisibleWindowRaises ==
    /\ (op = "window_partition"
          /\ (~Divides(arg.window_size, arg.x.shape[3])
                \/ ~Divides(arg.window_size, arg.x.shape[4])))
       => ~ret.ok
    /\ (op = "window_reverse"
          /\ (~Divides(arg.window_size, arg.H) \/ ~Divides(arg.window_size, arg.W)))
       => ~ret.ok

\* window_partition alone always raises on an indivisible height or width
PartitionIndivisibleRaises ==
    (op = "window_partition"
        /\ (~Divides(arg.window_size, arg.x.shape[3])
              \/ ~Divides(arg.window_size, arg.x.shape[4])))
    => ~ret.ok

\* -------------------------------------------------------- BDAM specification
\* heights and widths of the windowed attention: window sizes 1 (4, 6) and
\* 2 (8, 9), with 9 not a multiple of its window size
BDims == {4, 6, 8, 9}
\* in_planes of the windowed attention: the channel attention inside needs
\* in_planes div ratio >= 1 hidden channels
BPlanes == {ratio}

InitLayer ==
    /\ layer = NoLayer
    /\ op = "start"
    /\ arg = NoArg
    /\ ret = Err

NewBDAM ==
    /\ layer.kind = "none"
    /\ \E in_planes \in BPlanes, width \in BDims, height \in BDims :
        /\ layer' = BDAM(in_planes, width, height)
        /\ op' = "BDAM.__init__"
        /\ arg' = [in_planes |-> in_planes, width |-> width, height |-> height]
        /\ UNCHANGED ret

CallBDAM ==
    /\ layer.kind = "BDAM"
    /\ op = "BDAM.__init__"
    /\ \E N \in 1..MaxN, H \in BDims, W \in BDims :
        /\ op' = "BDAM.forward"
        /\ arg' = [x |-> Fresh(<<N, arg.in_planes, H, W>>)]
        /\ ret' = BDAMForward(layer, Fresh(<<N, arg.in_planes, H, W>>))
        /\ UNCHANGED layer

NextBDAM == NewBDAM \/ CallBDAM

SpecBDAM == InitLayer /\ [][NextBDAM]_vars

\* C2: a BDAM built with (in_planes, width, height), on every input
\* (N, in_planes, H, W) with window_size >= 1 dividing H and W, returns a
\* tensor of shape (N, in_planes, H, W).
C2_BDAMShapePreserving ==
    (op = "BDAM.forward"
        /\ layer.window_size >= 1
        /\ Divides(layer.window_size, arg.x.shape[3])
        /\ Divides(layer.window_size, arg.x.shape[4]))
    => (ret.ok /\ ret.shape = arg.x.shape)

\* BDAM on inputs of exactly the constructed extent, with at least `ratio'
\* channels, is shape preserving and keeps every element in its place
BDAMFixedExtent ==
    (op = "BDAM.forward"
        /\ layer.dam.cam.in_planes >= ratio
        /\ arg.x.shape[3] = layer.height /\ arg.x.shape[4] = layer.width
        /\ Divides(layer.window_size, layer.height)
        /\ Divides(layer.window_size, layer.width))
    => (ret.ok /\ ret.shape = arg.x.shape /\ Contiguous(ret).data = arg.x.data)

\* BDAM.forward raises whenever its window size does not divide the input's
\* or the constructed height or width
BDAMIndivisibleRaises ==
    (op = "BDAM.forward"
        /\ \E d \in {arg.x.shape[3], arg.x.shape[4], layer.height, layer.width} :
              ~Divides(layer.window_size, d))
    => ~ret.ok

\* --------------------------------------------------------- SAM specification
NewSAM ==
    /\ layer.kind = "none"
    /\ \E in_channels \in 1..MaxC, width \in 1..MaxHW, height \in 1..MaxHW :
        /\ layer' = SAM(in_channels, width, height)
        /\ op' = "SAM.__init__"
        /\ UNCHANGED <<arg, ret>>

CallSAM ==
    /\ layer.kind = "SAM"
    /\ op = "SAM.__init__"
    /\ \E N \in 1..MaxN, C \in 1..MaxC, H \in 1..MaxHW, W \in 1..MaxHW :
        /\ op' = "SAM.forward"
        /\ arg' = [x |-> [ok |-> TRUE, shape |-> <<N, C, H, W>>]]
        /\ ret' = SAMForward(layer, [ok |-> TRUE, shape |-> <<N, C, H, W>>])
        /\ UNCHANGED layer

NextSAM == NewSAM \/ CallSAM

SpecSAM == InitLayer /\ [][NextSAM]_vars

\* C9 as stated: on an input (N,C,H,W) with H = height and W = width, the
\* height-exchanged view is (N,H,C,W), the width-exchanged view is (N,W,C,H),
\* and their projections are (N,in_channels,C,W) and (N,in_channels,C,H).
C9_Original ==
    (op = "SAM.forward"
        /\ arg.x.shape[3] = layer.height /\ arg.x.shape[4] = layer.width)
    => LET N == arg.x.shape[1]
           C == arg.x.shape[2]
           H == arg.x.shape[3]
           W == arg.x.shape[4]
       IN /\ ret.xh = <<N, H, C, W>>
          /\ ret.xw = <<N, W, C, H>>
          /\ ret.yh = <<N, layer.in_channels, C, W>>
          /\ ret.yw = <<N, layer.in_channels, C, H>>

\* C9 amended: on an input (N,C,H,W) with H = height and W = width, the
\* height-exchanged view is (N,H,C,W) and the width-exchanged view is
\* (N,W,H,C); their projections are (N,in_channels,C,W) and
\* (N,in_channels,H,C); the product of the width projection with the height
\* projection, the returned gate, is (N,in_channels,H,W).
C9_SAMAxes ==
    (op = "SAM.forward"
        /\ arg.x.shape[3] = layer.height /\ arg.x.shape[4] = layer.width)
    => LET N == arg.x.shape[1]
           C == arg.x.shape[2]
           H == arg.x.shape[3]
           W == arg.x.shape[4]
       IN /\ ret.xh = <<N, H, C, W>>
          /\ ret.xw = <<N, W, H, C>>
          /\ ret.yh = <<N, layer.in_channels, C, W>>
          /\ ret.yw = <<N, layer.in_channels, H, C>>
          /\ ret.ok
          /\ ret.shape = <<N, layer.in_channels, H, W>>

C9_Witness ==
    /\ op = "SAM.forward"
    /\ layer.in_channels = 2 /\ layer.height = 3 /\ layer.width = 4
    /\ arg.x.shape = <<2, 1, 3, 4>>
    /\ ret.ok
    /\ ret.xw = <<2, 4, 3, 1>>
    /\ ret.yw = <<2, 2, 3, 1>>

\* -------------------------------------------------------- Conv specification
MaxK == 3      \* kernel sizes 1 .. MaxK

Kernels == {<<k>> : k \in 1..MaxK} \cup {<<kh, kw>> : kh \in 1..MaxK, kw \in 1..MaxK}
Paddings == {None, <<0>>, <<1>>, <<0, 1>>}
\* spatial sizes: the small ones and the 640 of the end-to-end scenario
Sizes == (1..MaxHW) \cup {640}

NewConv ==
    /\ layer.kind = "none"
    /\ \E c1 \in 1..MaxC, c2 \in 1..MaxC, k \in Kernels, s \in {<<1>>, <<2>>},
          p \in Paddings, act \in BOOLEAN :
        /\ layer' = Constructed(Conv(c1, c2, k, s, p, 1, act))
        /\ op' = "Conv.__init__"
        /\ arg' = [c1 |-> c1, c2 |-> c2, k |-> k, s |-> s, p |-> p, g |-> 1, act |-> act]
        /\ UNCHANGED ret

CallConv ==
    /\ layer.kind = "Conv"
    /\ op = "Conv.__init__"
    /\ \E N \in 1..MaxN, H \in Sizes, W \in Sizes :
        /\ op' = "Conv.forward"
        /\ arg' = [x |-> SymInput(<<N, arg.c1, H, W>>), init |-> arg]
        /\ ret' = ConvForward(layer, SymInput(<<N, arg.c1, H, W>>), <<>>)
        /\ UNCHANGED layer

NextConv == NewConv \/ CallConv

SpecConv == InitLayer /\ [][NextConv]_vars

\* C6: without a padding argument the padding is k div 2 (per axis for a
\* per-axis kernel size) and a given padding is used unchanged; the output
\* size is floor((in + 2*padding - k) / stride) + 1 per axis; automatic
\* padding at stride 1 gives an output as large as the input for every kernel
\* size and input size; and k = 3, s = 2 on 640 gives 320.
C6_AutoPadSameSize ==
    /\ (op = "Conv.__init__" /\ layer.kind = "Conv")
       => /\ arg.p = None
             => layer.conv.p = <<Pair(arg.k)[1] \div 2, Pair(arg.k)[2] \div 2>>
          /\ arg.p # None => layer.conv.p = Pair(arg.p)
    /\ (op = "Conv.forward" /\ ret.ok)
       => \A d \in {1, 2} :
            LET in == arg.x.shape[d + 2]
                out == ret.shape[d + 2]
                num == in + 2 * layer.conv.p[d] - layer.conv.k[d]
            IN (out - 1) * layer.conv.s[d] <= num /\ num < out * layer.conv.s[d]
    /\ (op = "Conv.forward" /\ arg.init.p = None /\ arg.init.s = <<1>>)
       => /\ ret.ok
          /\ ret.shape[3] = arg.x.shape[3]
          /\ ret.shape[4] = arg.x.shape[4]
    /\ (op = "Conv.forward" /\ arg.init.p = None /\ arg.init.k = <<3>>
          /\ arg.init.s = <<2>> /\ arg.x.shape[3] = 640)
       => (ret.ok /\ ret.shape[3] = 320)

\* ---------------------------------------------------- residual specification
MaxCh == 4     \* channel counts 1 .. MaxCh of the symbolic tensors
MaxS == 2      \* heights and widths 1 .. MaxS of the symbolic tensors
MaxRepeat == 2 \* stacked bottlenecks 0 .. MaxRepeat

\* expansions 0.25, 0.5, 0.75 and 1.0
Expansions == {<<1, 4>>, <<1, 2>>, <<3, 4>>, <<1, 1>>}

NewBottleneck ==
    /\ layer.kind = "none"
    /\ \E c1 \in 1..MaxCh, c2 \in 1..MaxCh, shortcut \in BOOLEAN, g \in {1, 2},
          e \in Expansions :
        /\ layer' = Constructed(Bottleneck(c1, c2, shortcut, g, e))
        /\ op' = "Bottleneck.__init__"
        /\ arg' = [c1 |-> c1, c2 |-> c2, shortcut |-> shortcut, g |-> g, e |-> e]
        /\ UNCHANGED ret

CallBottleneck ==
    /\ layer.kind = "Bottleneck"
    /\ op = "Bottleneck.__init__"
    /\ \E N \in 1..MaxN, C \in 1..MaxCh, H \in 1..MaxS, W \in 1..MaxS :
        /\ op' = "Bottleneck.forward"
        /\ arg' = [x |-> SymInput(<<N, C, H, W>>), init |-> arg]
        /\ ret' = BottleneckForward(layer, SymInput(<<N, C, H, W>>), <<>>)
        /\ UNCHANGED layer

NewBottleneckCSP ==
    /\ layer.kind = "none"
    /\ \E c1 \in 1..MaxCh, c2 \in 1..MaxCh, n \in 0..MaxRepeat, shortcut \in BOOLEAN,
          g \in {1, 2}, e \in Expansions :
        /\ layer' = Constructed(BottleneckCSP(c1, c2, n, shortcut, g, e))
        /\ op' = "BottleneckCSP.__init__"
        /\ arg' = [c1 |-> c1, c2 |-> c2, n |-> n, shortcut |-> shortcut, g |-> g,
                   e |-> e]
        /\ UNCHANGED ret

CallBottleneckCSP ==
    /\ layer.kind = "BottleneckCSP"
    /\ op = "BottleneckCSP.__init__"
    /\ \E N \in 1..MaxN, C \in 1..MaxCh, H \in 1..MaxS, W \in 1..MaxS :
        /\ op' = "BottleneckCSP.forward"
        /\ arg' = [x |-> SymInput(<<N, C, H, W>>), init |-> arg]
        /\ ret' = BottleneckCSPForward(layer, SymInput(<<N, C, H, W>>))
        /\ UNCHANGED layer

NextResidual ==
    NewBottleneck \/ CallBottleneck \/ NewBottleneckCSP \/ CallBottleneckCSP

SpecResidual == InitLayer /\ [][NextResidual]_vars

\* cv2(cv1(x)) written out: the two fused convolutions applied in turn
Transformed(m, x) ==
    ConvForward(m.cv2, ConvForward(m.cv1, x, <<"cv1">>), <<"cv2">>)

\* C4: a Bottleneck built with shortcut and c1 = c2 returns x + cv2(cv1(x)),
\* of the shape of x; in every other case it returns exactly cv2(cv1(x)); a
\* requested shortcut with c1 # c2 is dropped without an error, at
\* construction and in forward.
C4_ShortcutPolicy ==
    /\ (op = "Bottleneck.__init__" /\ arg.shortcut /\ arg.c1 # arg.c2)
       => /\ arg.g = 1 => layer.kind = "Bottleneck"
          /\ layer.kind = "Bottleneck" => ~layer.add
    /\ op = "Bottleneck.forward"
       => LET x == arg.x
              t == Transformed(layer, x)
          IN IF arg.init.shortcut /\ arg.init.c1 = arg.init.c2
             THEN /\ ret = Add(x, t)
                  /\ t.ok => (ret.ok /\ ret.shape = x.shape)
             ELSE /\ ret = t
                  /\ t.ok => ret.ok

C4_Witness ==
    /\ op = "Bottleneck.forward"
    /\ arg.init.shortcut
    /\ arg.init.c1 = 2 /\ arg.init.c2 = 4
    /\ arg.x.shape[2] = 2
    /\ ret.ok
    /\ ret.shape[2] = 4
    /\ ret.expr = <<"x", "cv1", "conv", "bn", "Hardswish",
                    "cv2", "conv", "bn", "Hardswish">>

\* h is c2 * e truncated to an integer
IsTruncated(h, c2, e) == h * e[2] <= c2 * e[1] /\ c2 * e[1] < (h + 1) * e[2]

\* h is round(c2 * e): the nearest integer, a tie going to the even one
IsRounded(h, c2, e) ==
    /\ 2 * (h * e[2] - c2 * e[1]) <= e[2]
    /\ 2 * (c2 * e[1] - h * e[2]) <= e[2]
    /\ (2 * (h * e[2] - c2 * e[1]) = e[2] \/ 2 * (c2 * e[1] - h * e[2]) = e[2])
       => h % 2 = 0

\* the hidden widths a constructed Bottleneck or BottleneckCSP carries, and
\* the channel counts at the concatenation of a BottleneckCSP forward pass
HiddenIs(h) ==
    /\ (op = "Bottleneck.__init__" /\ layer.kind = "Bottleneck")
       => (layer.cv1.conv.c2 = h /\ layer.cv2.conv.c1 = h)
    /\ (op = "BottleneckCSP.__init__" /\ layer.kind = "BottleneckCSP")
       => /\ layer.cv1.conv.c2 = h /\ layer.cv2.c2 = h /\ layer.cv3.c2 = h
          /\ layer.bn = 2 * h /\ layer.cv4.conv.c1 = 2 * h
    /\ (op = "BottleneckCSP.forward" /\ ret.cat.ok)
       => /\ ret.y1.shape[2] = h /\ ret.y2.shape[2] = h
          /\ ret.cat.shape[2] = 2 * h
          /\ ret.cat.expr = ret.y1.expr \o ret.y2.expr \o <<"cat">>

\* C5 as stated: the hidden channel count of Bottleneck and of BottleneckCSP
\* is round(c2 * e), and the tensor BottleneckCSP concatenates has
\* 2 * round(c2 * e) channels.
C5_Original ==
    \A h \in 0..(2 * MaxCh) :
        LET a == IF op \in {"Bottleneck.forward", "BottleneckCSP.forward"}
                 THEN arg.init ELSE arg
        IN (op # "start" /\ IsRounded(h, a.c2, a.e)) => HiddenIs(h)

\* C5 amended: the hidden channel count of Bottleneck and of BottleneckCSP is
\* int(c2 * e), the product truncated to an integer, and the tensor
\* BottleneckCSP concatenates before batch normalization and the final
\* projection has exactly 2 * int(c2 * e) channels, Path A's followed by
\* Path B's.
C5_HiddenChannels ==
    \A h \in 0..(2 * MaxCh) :
        LET a == IF op \in {"Bottleneck.forward", "BottleneckCSP.forward"}
                 THEN arg.init ELSE arg
        IN (op # "start" /\ IsTruncated(h, a.c2, a.e)) => HiddenIs(h)

C5_Witness ==
    /\ op = "BottleneckCSP.forward"
    /\ arg.init.c2 = 3 /\ arg.init.e = <<1, 2>> /\ arg.init.n = 2
    /\ ret.ok
    /\ ret.cat.shape[2] = 2
    /\ ret.shape[2] = 3

\* --------------------------------------------------------- SPP specification
MaxPool == 3   \* pooling sizes 1 .. MaxPool

\* pooling tuples: the default, and every tuple of at most two sizes
PoolTuples ==
    {<<5, 9, 13>>, <<>>} \cup {<<a>> : a \in 1..MaxPool}
        \cup {<<a, b>> : a \in 1..MaxPool, b \in 1..MaxPool}

NewSPP ==
    /\ layer.kind = "none"
    /\ \E c1 \in 2..MaxCh, c2 \in 1..MaxCh, k \in PoolTuples :
        /\ layer' = Constructed(SPP(c1, c2, k))
        /\ op' = "SPP.__init__"
        /\ arg' = [c1 |-> c1, c2 |-> c2, k |-> k]
        /\ UNCHANGED ret

CallSPP ==
    /\ layer.kind = "SPP"
    /\ op = "SPP.__init__"
    /\ \E N \in 1..MaxN, H \in 1..MaxHW, W \in 1..MaxHW :
        /\ op' = "SPP.forward"
        /\ arg' = [x |-> SymInput(<<N, arg.c1, H, W>>), init |-> arg]
        /\ ret' = SPPForward(layer, SymInput(<<N, arg.c1, H, W>>))
        /\ UNCHANGED layer

NextSPP == NewSPP \/ CallSPP

SpecSPP == InitLayer /\ [][NextSPP]_vars

\* C7: for every input (N,c1,H,W) and every tuple k of pooling sizes, each
\* max-pool branch has the spatial size (H,W) of the reduced tensor, the
\* concatenation is well formed with (c1 div 2) * (len(k) + 1) channels, and
\* the output has the spatial size of the input.
C7_SPPSameSize ==
    op = "SPP.forward"
    => LET hidden == arg.init.c1 \div 2 IN
       /\ ret.x1.ok
       /\ ret.x1.shape = <<arg.x.shape[1], hidden, arg.x.shape[3], arg.x.shape[4]>>
       /\ \A i \in 1..Len(arg.init.k) :
            ret.pooled[i].ok /\ ret.pooled[i].shape = ret.x1.shape
       /\ ret.cat.ok
       /\ ret.cat.shape[2] = hidden * (Len(arg.init.k) + 1)
       /\ ret.ok
       /\ ret.shape[3] = arg.x.shape[3] /\ ret.shape[4] = arg.x.shape[4]

\* with odd pooling sizes only, the same holds
SPPOddSizes ==
    (op = "SPP.forward" /\ \A i \in 1..Len(arg.init.k) : arg.init.k[i] % 2 = 1)
    => LET hidden == arg.init.c1 \div 2 IN
       /\ \A i \in 1..Len(arg.init.k) :
            ret.pooled[i].ok /\ ret.pooled[i].shape = ret.x1.shape
       /\ ret.cat.ok
       /\ ret.cat.shape[2] = hidden * (Len(arg.init.k) + 1)
       /\ ret.ok
       /\ ret.shape[3] = arg.x.shape[3] /\ ret.shape[4] = arg.x.shape[4]

\* ------------------------------------------------------- Focus specification
NewFocus ==
    /\ layer.kind = "none"
    /\ \E c1 \in 1..MaxC, c2 \in 1..MaxC, k \in {<<1>>, <<3>>} :
        /\ layer' = Constructed(Focus(c1, c2, k, <<1>>, None, 1, TRUE))
        /\ op' = "Focus.__init__"
        /\ arg' = [c1 |-> c1, c2 |-> c2, k |-> k]
        /\ UNCHANGED ret

CallFocus ==
    /\ layer.kind = "Focus"
    /\ op = "Focus.__init__"
    /\ \E N \in 1..MaxN, C \in 1..MaxC, H \in 1..MaxHW, W \in 1..MaxHW :
        /\ op' = "Focus.forward"
        /\ arg' = [x |-> Fresh(<<N, C, H, W>>), init |-> arg]
        /\ ret' = FocusForward(layer, Fresh(<<N, C, H, W>>))
        /\ UNCHANGED layer

NextFocus == NewFocus \/ CallFocus

SpecFocus == InitLayer /\ [][NextFocus]_vars

\* the (row, col) offsets of the four sub-grids, in channel order
FocusOffsets == <<<<0, 0>>, <<1, 0>>, <<0, 1>>, <<1, 1>>>>

\* C8: for x of shape (N,C,H,W) with H and W even, the tensor handed to the
\* convolution has shape (N,4C,H/2,W/2) and its channel j*C + c at (r,s) is
\* x[n, c, 2r + dr_j, 2s + dc_j] for the offsets (0,0), (1,0), (0,1), (1,1).
C8_FocusOrder ==
    (op = "Focus.forward" /\ arg.x.shape[3] % 2 = 0 /\ arg.x.shape[4] % 2 = 0)
    => LET x == arg.x
           N == x.shape[1]
           C == x.shape[2]
           H2 == x.shape[3] \div 2
           W2 == x.shape[4] \div 2
       IN /\ ret.cat.ok
          /\ ret.cat.shape = <<N, 4 * C, H2, W2>>
          /\ \A n \in 0..(N - 1), j \in 0..3, c \in 0..(C - 1),
                r \in 0..(H2 - 1), q \in 0..(W2 - 1) :
                Elem(ret.cat, <<n, j * C + c, r, q>>)
                    = Elem(x, <<n, c, 2 * r + FocusOffsets[j + 1][1],
                                2 * q + FocusOffsets[j + 1][2]>>)

C8_Witness ==
    /\ op = "Focus.forward"
    /\ arg.x.shape = <<2, 2, 4, 2>>
    /\ ret.cat.ok
    /\ ret.cat.shape = <<2, 8, 2, 1>>
    /\ ret.ok

====
